---- MODULE Spec2Model ----
(***************************************************************************)
(* Reel service of the Hustle Network backend (src/main.py): upload, list, *)
(* like/unlike and comment handlers over the "reel" collection of the      *)
(* document store, one action per store round trip of a handler.           *)
(***************************************************************************)
EXTENDS Integers, Sequences, FiniteSets, TLC

\* ----------------------------------------------------------------- bounds
ConcReels == 1      \* reels the collection may hold under Spec
ConcComments == 1   \* comments one reel may hold under Spec
SerialReels == 1    \* reels the collection may hold under LikeSpec and CommentSpec
MaxComments == 2    \* comments one reel may hold under CommentSpec
MaxReels == 2       \* reels the collection may hold under ListSpec
MaxTime == 1        \* clock readings are 0..MaxTime
MaxPage == 1        \* skip is 0..MaxPage, limit is 1..MaxPage
MaxLen == 4         \* length of a hashtags form field

\* ----------------------------------------------------------------- values
None == "None"                       \* Python's None for an Optional[str]
NoHashtags == <<None>>               \* hashtags form field left out
Sentinel == "anon"
Whitespace == {" "}
Chars == {" ", "#", ",", "a"}

Procs == {1, 2}                      \* request handlers
Client == <<"u1", "u2">>             \* the user whose likes handler p serves under Spec

\* A reel_id path parameter is abstracted to whether it is a well-formed
\* ObjectId string and, if so, which ObjectId it denotes.
BadId == [valid |-> FALSE, oid |-> 0]
HexId(n) == [valid |-> TRUE, oid |-> n]
VideoTypes == {"video/mp4"}

VARIABLES
    db,     \* the store handle imported from database: "connected" or None
    reel,   \* the "reel" collection, documents in insertion order
    now,    \* the last reading of the clock
    req,    \* per handler: its position, arguments, locals and response
    log     \* the calls completed before the current one, newest first
vars == <<db, reel, now, req, log>>

\* ------------------------------------------------------- pure helpers
Min(a, b) == IF a < b THEN a ELSE b

RECURSIVE SeqMax(_)
SeqMax(s) == IF s = <<>> THEN 0
             ELSE LET m == SeqMax(Tail(s)) IN IF Head(s) > m THEN Head(s) ELSE m

\* str.split(','): the pieces between commas, empty pieces kept.
RECURSIVE SplitComma(_)
SplitComma(s) ==
    IF \A i \in DOMAIN s : s[i] # ","
    THEN <<s>>
    ELSE LET i == CHOOSE k \in DOMAIN s :
                      s[k] = "," /\ \A j \in 1..(k - 1) : s[j] # ","
         IN <<SubSeq(s, 1, i - 1)>> \o SplitComma(SubSeq(s, i + 1, Len(s)))

\* str.lstrip(chars): every leading character of the set is removed.
RECURSIVE LStrip(_, _)
LStrip(s, chars) ==
    IF s # <<>> /\ Head(s) \in chars THEN LStrip(Tail(s), chars) ELSE s

RECURSIVE RStrip(_, _)
RStrip(s, chars) ==
    IF s # <<>> /\ s[Len(s)] \in chars
    THEN RStrip(SubSeq(s, 1, Len(s) - 1), chars) ELSE s

\* str.strip()
Strip(s) == RStrip(LStrip(s, Whitespace), Whitespace)

\* Variant: only one leading '#' is removed.
CleanTagSingle(h) ==
    LET s == Strip(h) IN IF s # <<>> /\ Head(s) = "#" THEN Tail(s) ELSE s

\* h.strip().lstrip('#')
CleanTag(h) == LStrip(Strip(h), {"#"})

RECURSIVE CleanPieces(_)
CleanPieces(ps) ==
    IF ps = <<>> THEN <<>>
    ELSE IF Strip(Head(ps)) # <<>>
         THEN <<CleanTag(Head(ps))>> \o CleanPieces(Tail(ps))
         ELSE CleanPieces(Tail(ps))

\* [h.strip().lstrip('#') for h in (hashtags or "").split(',') if h.strip()]
ParseHashtags(hashtags) ==
    CleanPieces(SplitComma(IF hashtags = NoHashtags THEN <<>> ELSE hashtags))

\* ------------------------------------------------------- the store
\* reel is the collection in insertion order; a document is
\* [_id, hashtags, likes, comments, created_at].  likes is kept as the set of
\* the stored list's members: the list is always list(<a Python set>).
Ids(coll) == {coll[i]._id : i \in DOMAIN coll}

CommentIds(coll) ==
    UNION {{coll[i].comments[j]._id : j \in DOMAIN coll[i].comments} : i \in DOMAIN coll}

\* ObjectId(): an identifier no document or comment carries yet.
NewObjectId(coll) ==
    1 + SeqMax([i \in DOMAIN coll |-> coll[i]._id])
      + Cardinality(CommentIds(coll))

Matches(coll, oid) == {i \in DOMAIN coll : coll[i]._id = oid}

\* find_one({"_id": oid}): the index of the document, 0 when there is none.
FindOne(coll, oid) ==
    IF Matches(coll, oid) = {} THEN 0 ELSE CHOOSE i \in Matches(coll, oid) : TRUE

InsertOne(coll, doc) == Append(coll, doc)

\* Variant: the document is replaced by one rebuilt around the new likes.
SetLikesReplace(coll, oid, likes) ==
    [i \in DOMAIN coll |->
        IF i = FindOne(coll, oid)
        THEN [coll[i] EXCEPT !.likes = likes, !.comments = <<>>] ELSE coll[i]]

\* update_one(filter, {"$set": {"likes": ...}}): only the likes field is written.
SetLikes(coll, oid, likes) ==
    [i \in DOMAIN coll |->
        IF i = FindOne(coll, oid) THEN [coll[i] EXCEPT !.likes = likes] ELSE coll[i]]

\* Variant: the comment is put in front of the sequence.
PushCommentFront(coll, oid, comment) ==
    [i \in DOMAIN coll |->
        IF i = FindOne(coll, oid)
        THEN [coll[i] EXCEPT !.comments = <<comment>> \o @] ELSE coll[i]]

\* update_one(filter, {"$push": {"comments": comment}}): no upsert.
PushComment(coll, oid, comment) ==
    [i \in DOMAIN coll |->
        IF i = FindOne(coll, oid)
        THEN [coll[i] EXCEPT !.comments = Append(@, comment)] ELSE coll[i]]

\* Variant: the matched count is not looked at.
MatchedCountIgnored(coll, oid) == 1

MatchedCount(coll, oid) == IF FindOne(coll, oid) = 0 THEN 0 ELSE 1

\* The orders find({}).sort("created_at", -1) can deliver: every arrangement
\* of the collection that is non-increasing in created_at (the store leaves
\* the order of equal keys open).
Perms(n) == {f \in [1..n -> 1..n] : \A i, j \in 1..n : i # j => f[i] # f[j]}

\* Variant: sorted oldest first.
SortedOrdersAscending(coll) ==
    {f \in Perms(Len(coll)) :
        \A i \in 1..(Len(coll) - 1) :
            coll[f[i]].created_at <= coll[f[i + 1]].created_at}

SortedOrders(coll) ==
    {f \in Perms(Len(coll)) :
        \A i \in 1..(Len(coll) - 1) :
            coll[f[i]].created_at >= coll[f[i + 1]].created_at}

\* Variant: skip is dropped.
WindowNoSkip(order, skip, limit) ==
    SubSeq(order, 1, IF limit = 0 THEN Len(order) ELSE Min(Len(order), limit))

\* .skip(skip).limit(limit); limit 0 means no limit.
Window(order, skip, limit) ==
    LET last == IF limit = 0 THEN Len(order) ELSE Min(Len(order), skip + limit)
    IN SubSeq(order, skip + 1, last)

\* build_reel_out
BuildReelOut(doc) ==
    [_id |-> doc._id, hashtags |-> doc.hashtags,
     likes |-> Cardinality(doc.likes), comments |-> doc.comments,
     created_at |-> doc.created_at]

\* Variant: a known user is only ever added.
ToggleLikesAddOnly(likes, user_id) ==
    IF user_id # None /\ user_id # "" THEN likes \cup {user_id}
    ELSE likes \cup {Sentinel}

\* Variant: the anonymous path toggles the sentinel like a user id.
ToggleLikesAnonToggles(likes, user_id) ==
    LET u == IF user_id # None /\ user_id # "" THEN user_id ELSE Sentinel
    IN IF u \in likes THEN likes \ {u} ELSE likes \cup {u}

\* likes as the handler computes them from the document it read
ToggleLikes(likes, user_id) ==
    IF user_id # None /\ user_id # ""
    THEN IF user_id \in likes THEN likes \ {user_id} ELSE likes \cup {user_id}
    ELSE likes \cup {Sentinel}

\* ------------------------------------------------------- requests
Idle == [pc |-> "idle", op |-> "none", reel_id |-> BadId, user_id |-> None,
         arg |-> <<>>, likes |-> {}, cid |-> 0, status |-> 0, body |-> <<>>]

Ready(p) == req[p].pc \in {"idle", "done"}

Start(op, reel_id, user_id, arg) ==
    [Idle EXCEPT !.op = op, !.reel_id = reel_id, !.user_id = user_id, !.arg = arg]

\* The handler returns (or raises HTTPException): its locals are gone.
Done(r, status, body) ==
    [r EXCEPT !.pc = "done", !.status = status, !.body = body, !.likes = {}]

\* db["reel"] with db None raises TypeError, build_reel_out(None) raises
\* AttributeError; no handler catches either: the framework answers 500.
Crash(r) == Done(r, 500, <<>>)

\* return build_reel_out(db["reel"].find_one({"_id": oid}))
Reread(r, oid) ==
    IF FindOne(reel, oid) = 0 THEN Crash(r)
    ELSE Done(r, 200, <<BuildReelOut(reel[FindOne(reel, oid)])>>)

\* upload_reel up to insert_one; t is the clock reading
UploadInsert(p, content_type, hashtags, t) ==
    /\ Ready(p)
    /\ LET r == Start("upload", BadId, None, hashtags) IN
       IF content_type \notin VideoTypes
       THEN /\ req' = [req EXCEPT ![p] = Done(r, 400, <<>>)]
            /\ UNCHANGED <<db, reel, now>>
       ELSE IF db = None
       THEN /\ req' = [req EXCEPT ![p] = Crash(r)]
            /\ UNCHANGED <<db, reel, now>>
       ELSE LET new_id == NewObjectId(reel)
                doc == [_id |-> new_id, hashtags |-> ParseHashtags(hashtags),
                        likes |-> {}, comments |-> <<>>, created_at |-> t]
            IN /\ reel' = InsertOne(reel, doc)
               /\ now' = t
               /\ req' = [req EXCEPT ![p] =
                            [r EXCEPT !.pc = "upload_reread", !.cid = new_id]]
               /\ UNCHANGED db

\* saved = find_one({"_id": new_id}); return build_reel_out(saved)
UploadReread(p) ==
    /\ req[p].pc = "upload_reread"
    /\ req' = [req EXCEPT ![p] = Reread(@, req[p].cid)]
    /\ UNCHANGED <<db, reel, now>>

\* list_reels
ListReels(p, skip, limit) ==
    /\ Ready(p)
    /\ LET r == Start("list", BadId, None, <<skip, limit>>) IN
       IF db = None
       THEN req' = [req EXCEPT ![p] = Crash(r)]
       ELSE \E order \in SortedOrders(reel) :
              LET page == Window(order, skip, limit) IN
              req' = [req EXCEPT ![p] =
                        Done(r, 200, [i \in DOMAIN page |-> BuildReelOut(reel[page[i]])])]
    /\ UNCHANGED <<db, reel, now>>

\* like_reel up to the first find_one and the toggle of the local set
LikeRead(p, reel_id, user_id) ==
    /\ Ready(p)
    /\ LET r == Start("like", reel_id, user_id, <<>>) IN
       IF ~reel_id.valid
       THEN req' = [req EXCEPT ![p] = Done(r, 400, <<>>)]
       ELSE IF db = None
       THEN req' = [req EXCEPT ![p] = Crash(r)]
       ELSE IF FindOne(reel, reel_id.oid) = 0
       THEN req' = [req EXCEPT ![p] = Done(r, 404, <<>>)]
       ELSE req' = [req EXCEPT ![p] =
                      [r EXCEPT !.pc = "like_write",
                                !.likes = ToggleLikes(reel[FindOne(reel, reel_id.oid)].likes,
                                                      user_id)]]
    /\ UNCHANGED <<db, reel, now>>

\* update_one({"_id": oid}, {"$set": {"likes": list(likes), ...}})
LikeWrite(p) ==
    /\ req[p].pc = "like_write"
    /\ reel' = SetLikes(reel, req[p].reel_id.oid, req[p].likes)
    /\ req' = [req EXCEPT ![p].pc = "like_reread"]
    /\ UNCHANGED <<db, now>>

\* updated = find_one({"_id": oid}); return build_reel_out(updated)
LikeReread(p) ==
    /\ req[p].pc = "like_reread"
    /\ req' = [req EXCEPT ![p] = Reread(@, req[p].reel_id.oid)]
    /\ UNCHANGED <<db, reel, now>>

\* comment_reel up to update_one
CommentPush(p, reel_id, user_id, text) ==
    /\ Ready(p)
    /\ LET r == Start("comment", reel_id, user_id, text) IN
       IF ~reel_id.valid
       THEN /\ req' = [req EXCEPT ![p] = Done(r, 400, <<>>)]
            /\ UNCHANGED reel
       ELSE IF db = None
       THEN /\ req' = [req EXCEPT ![p] = Crash(r)]
            /\ UNCHANGED reel
       ELSE LET comment == [_id |-> NewObjectId(reel), user_id |-> user_id, text |-> text]
            IN /\ reel' = PushComment(reel, reel_id.oid, comment)
               /\ IF MatchedCount(reel, reel_id.oid) = 0
                  THEN req' = [req EXCEPT ![p] = Done(r, 404, <<>>)]
                  ELSE req' = [req EXCEPT ![p] =
                                 [r EXCEPT !.pc = "comment_reread", !.cid = comment._id]]
    /\ UNCHANGED <<db, now>>

\* updated = find_one({"_id": oid}); return build_reel_out(updated)
CommentReread(p) ==
    /\ req[p].pc = "comment_reread"
    /\ req' = [req EXCEPT ![p] = Reread(@, req[p].reel_id.oid)]
    /\ UNCHANGED <<db, reel, now>>

\* test_database: the "database" string of its answer; list_collection_names
\* may raise, which the handler catches.
TestDatabase(p) ==
    /\ Ready(p)
    /\ \E answer \in (IF db # None THEN {"Connected & Working", "Connected but Error"}
                       ELSE {"Available but not initialized"}) :
          req' = [req EXCEPT ![p] = Done(Start("test", BadId, None, <<>>), 200, <<answer>>)]
    /\ UNCHANGED <<db, reel, now>>

\* ------------------------------------------------------- specifications
Init ==
    /\ db \in {"connected", None}
    /\ reel = <<>>
    /\ now = 0
    /\ req = [p \in Procs |-> Idle]
    /\ log = <<>>

\* The reel_id values a client sends: a malformed one, the id of every stored
\* reel, and a well-formed id that matches no reel.
ReelIdInputs == {BadId} \cup {HexId(n) : n \in Ids(reel) \cup {NewObjectId(reel)}}

HasRoom(reel_id, cap) ==
    \A i \in DOMAIN reel : reel[i]._id = reel_id.oid => Len(reel[i].comments) < cap

\* Handlers of different requests run concurrently, one store round trip at a
\* time (sync handlers run on the framework's thread pool).
Next ==
    \/ \E p \in Procs :
          Len(reel) < ConcReels /\ UploadInsert(p, "video/mp4", NoHashtags, now)
          /\ UNCHANGED log
    \/ \E p \in Procs : UploadReread(p) /\ UNCHANGED log
    \/ \E p \in Procs, r \in ReelIdInputs :
          LikeRead(p, r, Client[p]) /\ UNCHANGED log
    \/ \E p \in Procs : LikeWrite(p) /\ UNCHANGED log
    \/ \E p \in Procs : LikeReread(p) /\ UNCHANGED log
    \/ \E p \in Procs, r \in ReelIdInputs :
          HasRoom(r, ConcComments) /\ CommentPush(p, r, None, "hi") /\ UNCHANGED log
    \/ \E p \in Procs : CommentReread(p) /\ UNCHANGED log

Spec == Init /\ [][Next]_vars

\* ---- one request at a time: handler 1 serves the calls one after another.
\* log[1] follows the current call and the collection as it was when the call
\* started; the entries behind it are the calls completed before, newest first.
Keep(s, n) == SubSeq(s, 1, Min(Len(s), n))

Track(p, n) ==
    log' = IF Ready(p)
           THEN Keep(<<[before |-> reel, call |-> req'[p]]>> \o log, n)
           ELSE [log EXCEPT ![1].call = req'[p]]

LikeUserIds == {None, "", Sentinel, "u1"}

LikeNext ==
    \/ Len(reel) < SerialReels /\ UploadInsert(1, "video/mp4", NoHashtags, now) /\ Track(1, 2)
    \/ UploadReread(1) /\ Track(1, 2)
    \/ \E r \in ReelIdInputs, u \in LikeUserIds : LikeRead(1, r, u) /\ Track(1, 2)
    \/ LikeWrite(1) /\ Track(1, 2)
    \/ LikeReread(1) /\ Track(1, 2)

LikeSpec == Init /\ [][LikeNext]_vars

Authors == {None, "u1", "u2"}
Texts == {"hi"}

CommentNext ==
    \/ Len(reel) < SerialReels /\ UploadInsert(1, "video/mp4", NoHashtags, now) /\ Track(1, 1)
    \/ UploadReread(1) /\ Track(1, 1)
    \/ \E r \in ReelIdInputs, u \in Authors, t \in Texts :
          HasRoom(r, MaxComments) /\ CommentPush(1, r, u, t) /\ Track(1, 1)
    \/ CommentReread(1) /\ Track(1, 1)

CommentSpec == Init /\ [][CommentNext]_vars

ContentTypes == {None, "image/png", "video/mp4"}

ListNext ==
    \/ Len(reel) < MaxReels
          /\ \E c \in ContentTypes, t \in now..MaxTime : UploadInsert(1, c, NoHashtags, t)
          /\ Track(1, 3)
    \/ UploadReread(1) /\ Track(1, 3)
    \/ \E s \in 0..MaxPage, l \in 1..MaxPage : ListReels(1, s, l) /\ Track(1, 3)
    \/ TestDatabase(1) /\ Track(1, 3)

ListSpec == Init /\ [][ListNext]_vars

\* ---- one upload into the empty collection, over every hashtags field
Strings(n) == UNION {[1..k -> Chars] : k \in 0..n}

Example ==
    <<"#", "F", "u", "n", ",", " ", "s", "p", "o", "r", "t", "s", " ", ",", ",",
      " ", "#", "G", "a", "m", "i", "n", "g">>

HashtagInputs == Strings(MaxLen) \cup {NoHashtags, Example}

TagNext ==
    \/ reel = <<>>
          /\ \E h \in HashtagInputs : UploadInsert(1, "video/mp4", h, now)
          /\ Track(1, 1)
    \/ UploadReread(1) /\ Track(1, 1)

TagSpec == Init /\ [][TagNext]_vars

\* ------------------------------------------------------- properties
Cur == log[1].call              \* the current (or last completed) call
Prev == log[2].call             \* the call completed before it

Returned(c, op, status) == c.pc = "done" /\ c.op = op /\ c.status = status

LikesOf(coll, oid) == coll[FindOne(coll, oid)].likes
CommentsOf(coll, oid) == coll[FindOne(coll, oid)].comments

IsPrefix(s, t) == Len(s) <= Len(t) /\ \A i \in DOMAIN s : s[i] = t[i]

RealUser(u) == u \notin {None, "", Sentinel}

\* C1: Concurrent ToggleLike requests on one reel lose no update: when the
\* handlers of two distinct users, each of whom was absent from the like-set
\* the handler read, have both written (only their final re-read is left), the
\* persisted like-set holds both users.
C1_NoLostLike ==
    \A p, q \in Procs :
        ( /\ p # q
          /\ req[p].pc = "like_reread" /\ req[q].pc = "like_reread"
          /\ req[p].reel_id = req[q].reel_id
          /\ req[p].user_id # req[q].user_id
          /\ req[p].user_id \in req[p].likes
          /\ req[q].user_id \in req[q].likes )
        => {req[p].user_id, req[q].user_id} \subseteq LikesOf(reel, req[p].reel_id.oid)

TwoLikesInARow ==
    /\ Len(log) >= 2
    /\ Returned(Cur, "like", 200) /\ Returned(Prev, "like", 200)
    /\ Cur.reel_id = Prev.reel_id
    /\ Cur.user_id = Prev.user_id

Restored ==
    /\ LikesOf(reel, Cur.reel_id.oid) = LikesOf(log[2].before, Cur.reel_id.oid)
    /\ Cur.body[1].likes = Cardinality(LikesOf(log[2].before, Cur.reel_id.oid))

\* C2 as claimed: for every supplied user id (every value other than None),
\* two ToggleLike calls in a row on a reel leave its like-set, and the like
\* count returned, as they were before the first call.
C2_ToggleTwiceAnySupplied ==
    (TwoLikesInARow /\ Cur.user_id # None) => Restored

\* C2: for every non-empty user id, two ToggleLike calls in a row on a reel
\* leave its persisted like-set, and the like count returned, as they were
\* before the first call, whether or not the user was in the like-set.
C2_ToggleTwice ==
    (TwoLikesInARow /\ Cur.user_id \notin {None, ""}) => Restored

\* Reached: unlike then like again, the user being in the like-set at the start.
C2_Witness ==
    /\ TwoLikesInARow
    /\ Cur.user_id = "u1"
    /\ "u1" \in LikesOf(log[2].before, Cur.reel_id.oid)
    /\ Sentinel \in LikesOf(reel, Cur.reel_id.oid)

AnonCall(c) == Returned(c, "like", 200) /\ c.user_id \in {None, ""}

C4_CommentAppends ==
    (Len(log) >= 1 /\ Returned(Cur, "comment", 200)) =>
        LET old == log[1].before
            i == FindOne(old, Cur.reel_id.oid)
            new == reel[i].comments
            last == new[Len(new)]
        IN /\ i # 0
           /\ Len(reel) = Len(old)
           /\ \A j \in DOMAIN reel : j # i => reel[j] = old[j]
           /\ Len(new) = Len(old[i].comments) + 1
           /\ IsPrefix(old[i].comments, new)
           /\ last.user_id = Cur.user_id
           /\ last.text = Cur.arg
           /\ last._id \notin CommentIds(old)
           /\ reel[i] = [old[i] EXCEPT !.comments = new]
           /\ Cur.body[1].comments = new

\* Reached: a second comment, by another author, appended behind the first.
C4_Witness ==
    /\ Len(log) >= 1 /\ Returned(Cur, "comment", 200)
    /\ Cur.user_id = "u1"
    /\ Len(CommentsOf(reel, Cur.reel_id.oid)) = 2
    /\ CommentsOf(reel, Cur.reel_id.oid)[1].user_id = None

Completes(p) == req'[p].pc = "done" /\ req'[p] # req[p]

\* C5: a ToggleLike or Comment call with a malformed reel id ends with 400;
\* with the store connected, one with a well-formed id that matches no stored
\* reel ends with 404, and 404 is given for no other id; a call that ends
\* with 400 or 404 leaves the collection as it was.
C5_IdentifierErrors ==
    [][\A p \in Procs :
         (Completes(p) /\ req'[p].op \in {"like", "comment"}) =>
            /\ ~req'[p].reel_id.valid => req'[p].status = 400
            /\ (req'[p].reel_id.valid /\ db # None)
                 => (req'[p].status = 404 <=> FindOne(reel, req'[p].reel_id.oid) = 0)
            /\ req'[p].status \in {400, 404} => reel' = reel]_vars

\* Reached: a Comment answered 404 and a ToggleLike answered 400 while the
\* collection holds a reel with likes.
C5_Witness ==
    /\ Returned(req[1], "comment", 404)
    /\ Returned(req[2], "like", 400)
    /\ Len(reel) >= 1 /\ reel[1].likes # {}

StoreOps == {"upload", "list", "like", "comment"}

\* C6: with the store handle None, every store-dependent call whose input is
\* accepted ends by reporting the store unavailable (503), never with an
\* unhandled error, and /test answers 200 with a status string.
C6_DegradedMode ==
    \A p \in Procs :
        (db = None /\ req[p].pc = "done") =>
            /\ (req[p].op \in StoreOps /\ req[p].status # 400) => req[p].status = 503
            /\ req[p].op = "test" => (req[p].status = 200 /\ Len(req[p].body) = 1)

ListAfterCreate ==
    /\ Len(log) >= 2
    /\ Returned(Prev, "upload", 200)
    /\ Returned(Cur, "list", 200) /\ Cur.arg = <<0, 1>>

JustCreatedFirst == Len(Cur.body) = 1 /\ Cur.body[1]._id = Prev.cid

\* C7 as claimed: Create followed by List(limit=1, skip=0) returns exactly the
\* reel just created, also when a stored reel has the same created_at.
C7_NewestFirstWithTies == ListAfterCreate => JustCreatedFirst

StrictlyNewest(oid) ==
    \A i \in DOMAIN reel :
        reel[i]._id # oid => reel[i].created_at < reel[FindOne(reel, oid)].created_at

\* C7: Create followed by List(limit=1, skip=0) returns exactly the reel just
\* created when every other stored reel has a smaller created_at.
C7_NewestFirst ==
    (ListAfterCreate /\ StrictlyNewest(Prev.cid)) => JustCreatedFirst

\* Reached: the list after a create that found an older reel in the store.
C7_Witness ==
    /\ ListAfterCreate /\ StrictlyNewest(Prev.cid)
    /\ Len(reel) >= 2
    /\ Cur.body[1]._id = Prev.cid

BodyIds(c) == {c.body[i]._id : i \in DOMAIN c.body}

IsList(c, skip, limit) == Returned(c, "list", 200) /\ c.arg = <<skip, limit>>

\* The page is positions skip+1 .. skip+limit of an arrangement of all stored
\* reels that is non-increasing in created_at.
IsPageOf(c, coll) ==
    \E f \in Perms(Len(coll)) :
        /\ \A i, j \in DOMAIN coll : i < j => coll[f[i]].created_at >= coll[f[j]].created_at
        /\ Len(c.body) = (IF Len(coll) - c.arg[1] < 0 THEN 0
                          ELSE Min(c.arg[2], Len(coll) - c.arg[1]))
        /\ \A k \in DOMAIN c.body : c.body[k]._id = coll[f[c.arg[1] + k]]._id

NextPage(c, d) == c.arg[2] = d.arg[2] /\ d.arg[1] = c.arg[1] + c.arg[2]

\* C8 as claimed: every List answer is its window of the descending ordering,
\* and the pages List(N, M) and List(N+M, M) share no reel, whether the second
\* call follows the first directly or a Create completes between them.
C8_NoOverlapAlways ==
    /\ (Len(log) >= 1 /\ Returned(Cur, "list", 200)) => IsPageOf(Cur, reel)
    /\ (Len(log) >= 2 /\ Returned(Cur, "list", 200) /\ Returned(Prev, "list", 200)
          /\ NextPage(Prev, Cur))
         => BodyIds(Prev) \cap BodyIds(Cur) = {}
    /\ (Len(log) >= 3 /\ Returned(Cur, "list", 200) /\ Returned(Prev, "upload", 200)
          /\ Returned(log[3].call, "list", 200) /\ NextPage(log[3].call, Cur))
         => BodyIds(log[3].call) \cap BodyIds(Cur) = {}

DistinctTimes ==
    \A i, j \in DOMAIN reel : i # j => reel[i].created_at # reel[j].created_at

\* C8: every List answer is its window of the descending ordering, and the
\* pages List(N, M) and List(N+M, M) share no reel when the second call
\* follows the first with no Create between them and no two stored reels have
\* the same created_at.
C8_NoOverlap ==
    /\ (Len(log) >= 1 /\ Returned(Cur, "list", 200)) => IsPageOf(Cur, reel)
    /\ (Len(log) >= 2 /\ Returned(Cur, "list", 200) /\ Returned(Prev, "list", 200)
          /\ NextPage(Prev, Cur) /\ DistinctTimes)
         => BodyIds(Prev) \cap BodyIds(Cur) = {}

\* Reached: two consecutive non-empty pages of a store of distinct timestamps.
C8_Witness ==
    /\ Len(log) >= 2 /\ Returned(Cur, "list", 200) /\ Returned(Prev, "list", 200)
    /\ NextPage(Prev, Cur) /\ DistinctTimes
    /\ Cur.body # <<>> /\ Prev.body # <<>>

\* The hashtags field as the claim reads it: split on commas, trim each piece,
\* strip one leading '#', drop what is empty, keep the order.
StripOneHash(s) == IF s # <<>> /\ Head(s) = "#" THEN Tail(s) ELSE s

RECURSIVE ClaimedPieces(_)
ClaimedPieces(ps) ==
    IF ps = <<>> THEN <<>>
    ELSE LET t == StripOneHash(Strip(Head(ps)))
         IN (IF t = <<>> THEN <<>> ELSE <<t>>) \o ClaimedPieces(Tail(ps))

Field(h) == IF h = NoHashtags THEN <<>> ELSE h

Stored == Cur.body[1].hashtags

Uploaded == Len(log) >= 1 /\ Returned(Cur, "upload", 200)

\* C9 as claimed: the stored tags are the pieces trimmed and stripped of a
\* single leading '#', empty tags dropped, and no stored tag is empty.
C9_SingleHashNoEmpty ==
    Uploaded =>
        /\ Stored = ClaimedPieces(SplitComma(Field(Cur.arg)))
        /\ \A k \in DOMAIN Stored : Stored[k] # <<>>

\* The pieces of s between its commas, by the positions of the commas.
Commas(s) == {i \in DOMAIN s : s[i] = ","}
PieceCount(s) == Cardinality(Commas(s)) + 1
PieceStart(s, k) ==
    IF k = 1 THEN 1
    ELSE 1 + CHOOSE i \in Commas(s) : Cardinality({j \in Commas(s) : j <= i}) = k - 1
PieceEnd(s, k) ==
    IF k = PieceCount(s) THEN Len(s)
    ELSE (CHOOSE i \in Commas(s) : Cardinality({j \in Commas(s) : j <= i}) = k) - 1
Piece(s, k) == SubSeq(s, PieceStart(s, k), PieceEnd(s, k))
Blank(q) == \A i \in DOMAIN q : q[i] \in Whitespace
KeptPieces(s) == {k \in 1..PieceCount(s) : ~Blank(Piece(s, k))}

\* t is q without the whitespace at its ends and without any leading '#'.
IsTagOf(t, q) ==
    LET a == CHOOSE i \in DOMAIN q : q[i] \notin Whitespace
                  /\ \A x \in 1..(i - 1) : q[x] \in Whitespace
        z == CHOOSE i \in DOMAIN q : q[i] \notin Whitespace
                  /\ \A x \in (i + 1)..Len(q) : q[x] \in Whitespace
    IN \E i \in a..(z + 1) :
          /\ \A x \in a..(i - 1) : q[x] = "#"
          /\ i <= z => q[i] # "#"
          /\ t = SubSeq(q, i, z)

Fun == <<"F", "u", "n">>
Sports == <<"s", "p", "o", "r", "t", "s">>
Gaming == <<"G", "a", "m", "i", "n", "g">>

\* C9: the stored tags are, in input order and with repetitions, one per piece
\* between commas that is not blank: the piece without the whitespace at its
\* ends and without any of its leading '#' characters.  No stored tag starts
\* with '#'; a piece made of '#' only is stored as the empty tag; the field
\* "#Fun, sports ,, #Gaming" is stored as Fun, sports, Gaming.
C9_Hashtags ==
    Uploaded =>
        LET s == Field(Cur.arg) IN
        /\ Len(Stored) = Cardinality(KeptPieces(s))
        /\ \A k \in KeptPieces(s) :
              IsTagOf(Stored[Cardinality({j \in KeptPieces(s) : j <= k})], Piece(s, k))
        /\ \A k \in DOMAIN Stored : Stored[k] = <<>> \/ Stored[k][1] # "#"
        /\ Cur.arg = Example => Stored = <<Fun, Sports, Gaming>>
        /\ Stored = reel[1].hashtags

\* Reached: "##a" stored as "a", and "#a,#" with its empty second tag.
C9_Witness ==
    /\ Uploaded
    /\ \/ Cur.arg = <<"#", "#", "a">> /\ Stored = << <<"a">> >>
       \/ Cur.arg = <<"#", "a", ",", "#">> /\ Stored = << <<"a">>, <<>> >>

====
